---- MODULE Spec2Model ----
(***************************************************************************)
(* The notebook lab_3_automatic_model_tuning/automatic_model_tuning.ipynb  *)
(* as a state machine: one action per code cell, the notebook's variables  *)
(* as state, and the managed tuning service the cells talk to as the       *)
(* environment.                                                            *)
(*                                                                         *)
(* A cell that calls the tuning API takes two steps, the call and its      *)
(* return, so that the service can move while the call is in flight.       *)
(* The cells that are left as an exercise (hyperparameter_ranges, tuner)   *)
(* are modelled as their instructions, in the cell's comments, fill them.  *)
(***************************************************************************)
EXTENDS Integers, Sequences, FiniteSets, TLC

\* Largest number of rows of the data set that is explored.
MaxRows == 3

\* Most things that go wrong in one run of the notebook: an API call that
\* raises (throttling, quota), a tuning job that fails or is stopped.
MaxFaults == 1

\* Most calls of fit in one run of the notebook.
MaxFits == 3

\* The objective values 1..MaxObjective a training job can reach.
MaxObjective == 2

\* "The maximum number of parents can be 5" (warm start parameters).
MaxParents == 5

VARIABLES
    \* the kernel: which cell comes next, how each cell's last run ended, the
    \* cell whose API call is in flight, the calls in flight, the output of
    \* the cell run last
    pc, result, running, inflight, out,
    \* the cells this run of the notebook passes over
    passed,
    \* the objective values the training jobs of this run can reach
    scores,
    \* names bound in the notebook's namespace
    bound,
    \* data preparation
    bank_additional_full, rng1729, data, model_data, train_data,
    validation_data, clean_data, clean_model_data, clean_train_data,
    clean_validation_data, files, s3,
    \* setup and locations
    bucket, prefix, s3train, s3validation, s3train_clean, s3validation_clean,
    s3_output_location, s3_input_train, s3_input_validation,
    \* estimator and tuners
    xgb, hyperparameter_ranges, objective_metric_name, tuner,
    warm_start_config, parent_tuning_job_name, tuner_warm_start,
    \* status poll
    sage_client, job_name, tuning_job_result, status, job_count,
    \* evaluation
    tuning_job_name, df_parent, warmstart_tuning_job_name, df_warm_start,
    df_parent_objective_value, df_warm_start_objective_value,
    best_overall_training_job,
    \* the tuning service: its tuning jobs, the API errors it has raised, and
    \* the clock the SDK names a job after
    jobs, faults, clock

kernelVars == <<pc, result, running, inflight, out>>

dataVars == <<data, model_data, train_data, validation_data, clean_data,
              clean_model_data, clean_train_data, clean_validation_data>>

worldVars == <<bank_additional_full, rng1729, files, s3>>

locVars == <<bucket, prefix, s3train, s3validation, s3train_clean,
             s3validation_clean, s3_output_location, s3_input_train,
             s3_input_validation>>

tunerVars == <<xgb, hyperparameter_ranges, objective_metric_name, tuner,
               warm_start_config, parent_tuning_job_name, tuner_warm_start>>

pollVars == <<sage_client, job_name, tuning_job_result, status, job_count>>

evalVars == <<tuning_job_name, df_parent, warmstart_tuning_job_name,
              df_warm_start, df_parent_objective_value,
              df_warm_start_objective_value, best_overall_training_job>>

serviceVars == <<jobs, faults, clock>>

vars == <<kernelVars, passed, scores, bound, dataVars, worldVars, locVars, tunerVars,
          pollVars, evalVars, serviceVars>>

\* The names the status-poll cells assign.
PollNames == {"sage_client", "job_name", "tuning_job_result", "status",
              "job_count"}

(***************************************************************************)
(* The code cells, top to bottom.                                          *)
(***************************************************************************)
CellOrder ==
    <<"setup", "read_data", "get_dummies", "split_save", "upload",
      "s3_locations", "estimator", "tuner", "fit", "poll", "table", "plot",
      "clean", "clean_prepare", "upload_clean", "s3_locations_2",
      "warm_start_config", "tuner_warm_start", "fit_warm", "poll_warm",
      "table_warm", "plot_warm", "best">>

NCells == Len(CellOrder)

Cells == {CellOrder[i] : i \in 1..NCells}

IndexOf == [c \in Cells |-> CHOOSE i \in 1..NCells : CellOrder[i] = c]

Index(c) == IndexOf[c]

PollCells == {"poll", "poll_warm"}

DataCells == {"read_data", "get_dummies", "split_save", "clean",
              "clean_prepare"}

(***************************************************************************)
(* Data frames: the column names, the index labels and one row per label.  *)
(***************************************************************************)
DataColumns ==
    <<"age", "marital", "duration", "emp.var.rate", "cons.price.idx",
      "cons.conf.idx", "euribor3m", "nr.employed", "y">>

\* Columns of dtype object; the others are numeric.
ObjectColumns == {"marital", "y"}

\* The values a categorical column takes, in sorted order.
Levels(col) ==
    IF col = "y" THEN <<"no", "yes">> ELSE <<"married", "single">>

RowValues ==
    {[c \in {DataColumns[i] : i \in 1..Len(DataColumns)} |->
        IF c = "y" THEN yv ELSE IF c = "marital" THEN mv
        ELSE IF c = "age" THEN 30 ELSE 0] :
     yv \in {"no", "yes"}, mv \in {"married", "single"}}

NoFrame == [columns |-> <<>>, index |-> <<>>, rows |-> <<>>]

Range(s) == {s[i] : i \in 1..Len(s)}

RECURSIVE Flatten(_)
Flatten(ss) == IF ss = <<>> THEN <<>> ELSE Head(ss) \o Flatten(Tail(ss))

\* pd.read_csv: default RangeIndex 0..n-1.
read_csv(rows) ==
    [columns |-> DataColumns,
     index |-> [i \in 1..Len(rows) |-> i - 1],
     rows |-> rows]

DummyName(col, level) == col \o "_" \o level

\* Variant of PresentLevels: get_dummies(..., drop_first=True) leaves out the
\* first level of each column.
PresentLevelsDropFirst(df, col) ==
    LET present == SelectSeq(Levels(col),
                     LAMBDA l : \E i \in 1..Len(df.rows) : df.rows[i][col] = l)
    IN IF present = <<>> THEN <<>> ELSE Tail(present)

\* The levels of a column that occur in the frame, sorted.
PresentLevels(df, col) ==
    SelectSeq(Levels(col),
              LAMBDA l : \E i \in 1..Len(df.rows) : df.rows[i][col] = l)

\* pd.get_dummies(df): the numeric columns stay, in order; each object column
\* is replaced by one 0/1 indicator column per value that occurs in it,
\* appended after the numeric columns.
get_dummies_indicator(row, col, level) == IF row[col] = level THEN 1 ELSE 0

get_dummies(df) ==
    LET numeric == SelectSeq(df.columns, LAMBDA c : c \notin ObjectColumns)
        objects == SelectSeq(df.columns, LAMBDA c : c \in ObjectColumns)
        pairs == Flatten([k \in 1..Len(objects) |->
                    [j \in 1..Len(PresentLevels(df, objects[k])) |->
                        <<objects[k], PresentLevels(df, objects[k])[j]>>]])
        dummies == [k \in 1..Len(pairs) |-> DummyName(pairs[k][1], pairs[k][2])]
        cols == numeric \o dummies
        NewRow(row) ==
            [c \in Range(cols) |->
                IF c \in Range(numeric) THEN row[c]
                ELSE LET p == CHOOSE q \in Range(pairs) :
                                  DummyName(q[1], q[2]) = c
                     IN get_dummies_indicator(row, p[1], p[2])]
    IN [columns |-> cols,
        index |-> df.index,
        rows |-> [i \in 1..Len(df.rows) |-> NewRow(df.rows[i])]]

\* df.drop(names, axis=1); a name that is no column raises KeyError.
drop_columns_ok(df, names) == names \subseteq Range(df.columns)

drop_columns(df, names) ==
    LET cols == SelectSeq(df.columns, LAMBDA c : c \notin names)
    IN [columns |-> cols,
        index |-> df.index,
        rows |-> [i \in 1..Len(df.rows) |->
                    [c \in Range(cols) |-> df.rows[i][c]]]]

\* pd.concat([df[first], df.drop([...])], axis=1): `first` becomes column 1.
label_first(df, first, dropped) ==
    LET rest == drop_columns(df, dropped)
        cols == <<first>> \o rest.columns
    IN [columns |-> cols,
        index |-> df.index,
        rows |-> [i \in 1..Len(df.rows) |->
                    [c \in Range(cols) |-> df.rows[i][c]]]]

\* Python 3 round(0.7 * n): to the nearest integer, a tie to the even one.
Round70(n) ==
    LET q == (7 * n) \div 10
        r == (7 * n) % 10
    IN IF r < 5 THEN q
       ELSE IF r > 5 THEN q + 1
       ELSE IF q % 2 = 0 THEN q ELSE q + 1

\* Variant of sample: the fractions of the two sets exchanged, frac=0.3.
sample_frac30(df, perm) ==
    LET n == Len(df.rows)
        k == IF (3 * n) % 10 < 5 THEN (3 * n) \div 10 ELSE (3 * n) \div 10 + 1
    IN [columns |-> df.columns,
        index |-> [i \in 1..k |-> df.index[perm[i]]],
        rows |-> [i \in 1..k |-> df.rows[perm[i]]]]

\* df.sample(frac=0.7, random_state=1729): the first round(0.7 n) positions of
\* the permutation the seeded generator draws for n rows.
sample(df, perm) ==
    LET k == Round70(Len(df.rows))
    IN [columns |-> df.columns,
        index |-> [i \in 1..k |-> df.index[perm[i]]],
        rows |-> [i \in 1..k |-> df.rows[perm[i]]]]

\* df.drop(labels): the rows whose index label is not among `labels`.
drop_rows(df, labels) ==
    LET keep == SelectSeq([i \in 1..Len(df.rows) |-> i],
                          LAMBDA i : df.index[i] \notin labels)
    IN [columns |-> df.columns,
        index |-> [i \in 1..Len(keep) |-> df.index[keep[i]]],
        rows |-> [i \in 1..Len(keep) |-> df.rows[keep[i]]]]

\* Variant of to_csv: index=False left out, so that each line starts with the
\* row's index label.
to_csv_with_index(df) ==
    [i \in 1..Len(df.rows) |->
        <<df.index[i]>> \o
        [j \in 1..Len(df.columns) |-> df.rows[i][df.columns[j]]]]

\* df.to_csv(path, index=False, header=False): one line per row, the values in
\* column order, no header line and no index field.
to_csv(df) ==
    [i \in 1..Len(df.rows) |->
        [j \in 1..Len(df.columns) |-> df.rows[i][df.columns[j]]]]

SampleOrders(n) ==
    {p \in [1..n -> 1..n] : \A i, j \in 1..n : p[i] = p[j] => i = j}

\* The data sets explored: up to MaxRows rows, both labels present (the file
\* the notebook downloads holds both).
DataSets ==
    {rows \in UNION {[1..n -> RowValues] : n \in 2..MaxRows} :
        \A l \in {"no", "yes"} : \E i \in 1..Len(rows) : rows[i]["y"] = l}

\* The data set of the tuning runs: one row of each label.
FixedDataSet ==
    <<[c \in Range(DataColumns) |->
        IF c = "y" THEN "no" ELSE IF c = "marital" THEN "married"
        ELSE IF c = "age" THEN 30 ELSE 0],
      [c \in Range(DataColumns) |->
        IF c = "y" THEN "yes" ELSE IF c = "marital" THEN "single"
        ELSE IF c = "age" THEN 30 ELSE 0]>>

(***************************************************************************)
(* The kernel runs one cell at a time.  Cells are first run top to bottom; *)
(* a cell whose last run raised may be run again until a later cell is     *)
(* run, and a status-poll cell may be run again at any time ("Run this     *)
(* cell to check current status").  A cell that raises leaves what it had  *)
(* assigned so far.  A run may pass over cells: the cells of `passed` are  *)
(* never run.                                                              *)
(***************************************************************************)
\* Variant of CanStart: a kernel that starts a cell while another one is
\* still waiting for its call to return.
CanStartWhileBusy(c) ==
    /\ c \notin passed
    /\ \/ pc = Index(c)
       \/ /\ Index(c) < pc
          /\ \/ c \in PollCells
             \/ /\ result[c] = "error"
                /\ \A d \in Cells : Index(d) > Index(c) => result[d] = "todo"

CanStart(c) ==
    /\ running = "idle"
    /\ c \notin passed
    /\ \/ pc = Index(c)
       \/ /\ Index(c) < pc
          /\ \/ c \in PollCells
             \/ /\ result[c] = "error"
                /\ \A d \in Cells : Index(d) > Index(c) => result[d] = "todo"

Finish(c, r, o) ==
    /\ UNCHANGED <<passed, scores>>
    /\ result' = [result EXCEPT ![c] = r]
    /\ pc' = IF pc = Index(c) THEN pc + 1 ELSE pc
    /\ running' = "idle"
    /\ out' = o

S3Url(b, p, leaf) == "s3://" \o b \o "/" \o p \o "/" \o leaf

s3_input(url) ==
    [s3_data |-> url, distribution |-> "FullyReplicated",
     content_type |-> "text/csv", s3_data_type |-> "S3Prefix"]

NoInput == s3_input("")

\* role, sess, bucket, prefix
Setup ==
    /\ CanStart("setup")
    /\ bucket' = "sagemaker-bucket"
    /\ prefix' = "DEMO-marketing-warmstart"
    /\ bound' = bound \cup {"role", "sess", "bucket", "prefix"}
    /\ Finish("setup", "ok",
              <<"Role name: role", "Bucket name: " \o bucket'>>)
    /\ UNCHANGED <<inflight, dataVars, worldVars, s3train, s3validation,
                   s3train_clean, s3validation_clean, s3_output_location,
                   s3_input_train, s3_input_validation, tunerVars, pollVars,
                   evalVars, serviceVars>>

\* data = pd.read_csv(...)
ReadData ==
    /\ CanStart("read_data")
    /\ data' = read_csv(bank_additional_full)
    /\ bound' = bound \cup {"data"}
    /\ Finish("read_data", "ok", <<>>)
    /\ UNCHANGED <<inflight, model_data, train_data, validation_data,
                   clean_data, clean_model_data, clean_train_data,
                   clean_validation_data, worldVars, locVars, tunerVars,
                   pollVars, evalVars, serviceVars>>

\* model_data = pd.get_dummies(data)
GetDummies ==
    /\ CanStart("get_dummies")
    /\ IF "data" \in bound
       THEN /\ model_data' = get_dummies(data)
            /\ bound' = bound \cup {"model_data"}
            /\ Finish("get_dummies", "ok", <<>>)
       ELSE /\ Finish("get_dummies", "error", <<"NameError">>)
            /\ UNCHANGED <<model_data, bound>>
    /\ UNCHANGED <<inflight, data, train_data, validation_data, clean_data,
                   clean_model_data, clean_train_data, clean_validation_data,
                   worldVars, locVars, tunerVars, pollVars, evalVars, serviceVars>>

\* The reformatting steps shared by the two data sets: the label first, the
\* 70/30 split, the two CSV files.
Reformat(df) ==
    LET md == label_first(df, "y_yes", {"y_no", "y_yes"})
        tr == sample(md, rng1729)
        va == drop_rows(md, Range(tr.index))
    IN [model |-> md, train |-> tr, validation |-> va,
        files |-> [n \in {"train.csv", "validation.csv"} |->
                     IF n = "train.csv" THEN to_csv(tr) ELSE to_csv(va)]]

SplitSave ==
    /\ CanStart("split_save")
    /\ IF /\ "model_data" \in bound
          /\ {"y_no", "y_yes"} \subseteq Range(model_data.columns)
       THEN /\ model_data' = Reformat(model_data).model
            /\ train_data' = Reformat(model_data).train
            /\ validation_data' = Reformat(model_data).validation
            /\ files' = Reformat(model_data).files
            /\ bound' = bound \cup {"train_data", "validation_data"}
            /\ Finish("split_save", "ok", <<>>)
       ELSE /\ Finish("split_save", "error", <<"KeyError">>)
            /\ UNCHANGED <<model_data, train_data, validation_data, files,
                           bound>>
    /\ UNCHANGED <<inflight, data, clean_data, clean_model_data,
                   clean_train_data, clean_validation_data,
                   bank_additional_full, rng1729, s3, locVars, tunerVars,
                   pollVars, evalVars, serviceVars>>

\* s3train, s3validation and the two `aws s3 cp`.
Upload ==
    /\ CanStart("upload")
    /\ s3train' = S3Url(bucket, prefix, "train/")
    /\ s3validation' = S3Url(bucket, prefix, "validation/")
    /\ s3' = [s3 EXCEPT !["train/"] = files["train.csv"],
                        !["validation/"] = files["validation.csv"]]
    /\ bound' = bound \cup {"s3train", "s3validation"}
    /\ Finish("upload", "ok", <<>>)
    /\ UNCHANGED <<inflight, dataVars, bank_additional_full, rng1729, files,
                   bucket, prefix, s3train_clean, s3validation_clean,
                   s3_output_location, s3_input_train, s3_input_validation,
                   tunerVars, pollVars, evalVars, serviceVars>>

\* s3_output_location, s3_input_train, s3_input_validation
S3Locations ==
    /\ CanStart("s3_locations")
    /\ s3_output_location' = S3Url(bucket, prefix, "output")
    /\ s3_input_train' = s3_input(s3train)
    /\ s3_input_validation' = s3_input(s3validation)
    /\ bound' = bound \cup {"s3_output_location", "s3_input_train",
                            "s3_input_validation"}
    /\ Finish("s3_locations", "ok", <<>>)
    /\ UNCHANGED <<inflight, dataVars, worldVars, bucket, prefix, s3train,
                   s3validation, s3train_clean, s3validation_clean,
                   tunerVars, pollVars, evalVars, serviceVars>>

(***************************************************************************)
(* Estimator and tuners.                                                   *)
(***************************************************************************)
NoWarmStart == [type |-> "None", parents |-> {}]

\* sagemaker.estimator.Estimator(container, role, ..., output_path=...) and
\* xgb.set_hyperparameters(...)
Estimator(output_path) ==
    [image |-> "xgboost", train_instance_count |-> 1,
     train_instance_type |-> "ml.m4.xlarge", output_path |-> output_path,
     hyperparameters |->
        [max_depth |-> "5", eta |-> "0.2", gamma |-> "4",
         min_child_weight |-> "6", subsample |-> "0.8", silent |-> "0",
         objective |-> "binary:logistic", num_round |-> "100"]]

NoEstimator == Estimator("")

\* hyperparameter_ranges, as the cell's instructions define it.
HyperparameterRanges ==
    [eta |-> <<"Continuous", 0, 1>>, alpha |-> <<"Continuous", 0, 2>>,
     min_child_weight |-> <<"Continuous", 1, 10>>,
     max_depth |-> <<"Integer", 1, 10>>]

HyperparameterTuner(estimator, metric, ranges, type, jobs_, parallel, base, wsc) ==
    [estimator |-> estimator, objective_metric_name |-> metric,
     hyperparameter_ranges |-> ranges, objective_type |-> type,
     max_jobs |-> jobs_, max_parallel_jobs |-> parallel,
     base_tuning_job_name |-> base, warm_start_config |-> wsc,
     current_job_name |-> "None"]

\* Variant of FirstTuner: the two resource limits exchanged.
FirstTunerLimitsExchanged(estimator, metric, ranges) ==
    HyperparameterTuner(estimator, metric, ranges, "Maximize", 3, 5,
                        estimator.image, NoWarmStart)

\* tuner = HyperparameterTuner(xgb, objective_metric_name,
\*     hyperparameter_ranges, objective_type='Maximize', max_jobs=5,
\*     max_parallel_jobs=3): the cell's instructions.
FirstTuner(estimator, metric, ranges) ==
    HyperparameterTuner(estimator, metric, ranges, "Maximize", 5, 3,
                        estimator.image, NoWarmStart)

\* Variant of WarmStartTuner: the parallelism of the first tuner kept.
WarmStartTunerThreeParallel(estimator, metric, ranges, wsc) ==
    HyperparameterTuner(estimator, metric, ranges, "Maximize", 20, 3,
                        "warmstart", wsc)

\* Variant of WarmStartTuner: the objective to be minimized.
WarmStartTunerMinimize(estimator, metric, ranges, wsc) ==
    HyperparameterTuner(estimator, metric, ranges, "Minimize", 20, 2,
                        "warmstart", wsc)

\* tuner_warm_start = HyperparameterTuner(xgb, ..., max_jobs=20,
\*     max_parallel_jobs=2, base_tuning_job_name='warmstart',
\*     warm_start_config=warm_start_config)
WarmStartTuner(estimator, metric, ranges, wsc) ==
    HyperparameterTuner(estimator, metric, ranges, "Maximize", 20, 2,
                        "warmstart", wsc)

NoTuner == HyperparameterTuner(NoEstimator, "", HyperparameterRanges, "", 0,
                               0, "", NoWarmStart)

\* Variants of WarmStartConfig: the parent left out; the other warm start
\* type.
WarmStartConfigNoParent(parent) ==
    [type |-> "TRANSFER_LEARNING", parents |-> {}]

WarmStartConfigIdenticalData(parent) ==
    [type |-> "IDENTICAL_DATA_AND_ALGORITHM", parents |-> {parent}]

\* WarmStartConfig(WarmStartTypes.TRANSFER_LEARNING,
\*                 parents={parent_tuning_job_name})
WarmStartConfig(parent) == [type |-> "TRANSFER_LEARNING", parents |-> {parent}]

\* xgb = Estimator(..., output_path=s3_output_location, ...)
EstimatorCell ==
    /\ CanStart("estimator")
    /\ IF "s3_output_location" \in bound
       THEN /\ xgb' = Estimator(s3_output_location)
            /\ bound' = bound \cup {"my_region", "container", "xgb"}
            /\ Finish("estimator", "ok", <<>>)
       ELSE /\ Finish("estimator", "error", <<"NameError">>)
            /\ UNCHANGED <<xgb, bound>>
    /\ UNCHANGED <<inflight, dataVars, worldVars, locVars,
                   hyperparameter_ranges, objective_metric_name, tuner,
                   warm_start_config, parent_tuning_job_name,
                   tuner_warm_start, pollVars, evalVars, serviceVars>>

\* hyperparameter_ranges, objective_metric_name, tuner
TunerCell ==
    /\ CanStart("tuner")
    /\ hyperparameter_ranges' = HyperparameterRanges
    /\ objective_metric_name' = "validation:auc"
    /\ IF "xgb" \in bound
       THEN /\ tuner' = FirstTuner(xgb, objective_metric_name',
                                   hyperparameter_ranges')
            /\ bound' = bound \cup {"hyperparameter_ranges",
                                    "objective_metric_name", "tuner"}
            /\ Finish("tuner", "ok", <<>>)
       ELSE /\ bound' = bound \cup {"hyperparameter_ranges",
                                    "objective_metric_name"}
            /\ Finish("tuner", "error", <<"NameError">>)
            /\ UNCHANGED tuner
    /\ UNCHANGED <<inflight, dataVars, worldVars, locVars, xgb,
                   warm_start_config, parent_tuning_job_name,
                   tuner_warm_start, pollVars, evalVars, serviceVars>>

(***************************************************************************)
(* The tuning service.  A tuning job runs training jobs within the         *)
(* resource limits it was created with: "a budget (max number of training  *)
(* jobs) and it will complete once that many training jobs have been       *)
(* executed", "how many training jobs should be run simultaneously".       *)
(* A job may also fail, or be stopped from the console.                    *)
(***************************************************************************)
JobStatuses == {"InProgress", "Completed", "Failed", "Stopped"}

\* The name the SDK gives the job of a fit: the base name and the time.
JobName(base, time) == base \o "-" \o ToString(time)

\* The CreateHyperParameterTuningJob request of tuner.fit(inputs).
CreateRequest(t, inputs) ==
    [name |-> t.current_job_name,
     max_jobs |-> t.max_jobs,
     max_parallel_jobs |-> t.max_parallel_jobs,
     objective |-> <<t.objective_type, t.objective_metric_name>>,
     warm_start_type |-> t.warm_start_config.type,
     parents |-> t.warm_start_config.parents,
     train |-> inputs.train.s3_data,
     validation |-> inputs.validation.s3_data,
     output_path |-> t.estimator.output_path]

\* The service turns down a request that names a parent it does not know,
\* or more than MaxParents parents.
RequestValid(req) ==
    /\ req.parents \subseteq DOMAIN jobs
    /\ Cardinality(req.parents) <= MaxParents

NewJob(req) ==
    [status |-> "InProgress", config |-> req,
     launched |-> 0, running |-> 0, completed |-> 0, objectives |-> {}]

Active == {j \in DOMAIN jobs : jobs[j].status = "InProgress"}

\* The free slots of a job: within its budget and its parallelism.
FreeSlots(job) ==
    LET budget == job.config.max_jobs - job.launched
        slots == job.config.max_parallel_jobs - job.running
    IN IF budget < slots THEN budget ELSE slots

\* The job starts training jobs in every free slot ("sampling 3 points in
\* each round in parallel").
Launched(job) ==
    [job EXCEPT !.launched = @ + FreeSlots(job),
                !.running = @ + FreeSlots(job)]

\* A training job ends with the objective value v; the job starts the next
\* one in its slot while the budget lasts, and completes with the last
\* training job of the budget.
Executed(job, v) ==
    LET done == [job EXCEPT !.running = @ - 1, !.completed = @ + 1,
                            !.objectives = @ \cup {v}]
    IN IF done.completed = job.config.max_jobs
       THEN [done EXCEPT !.status = "Completed"]
       ELSE Launched(done)

Ended(job, how) == [job EXCEPT !.status = how, !.running = 0]

notebookVars == <<kernelVars, passed, scores, bound, dataVars, worldVars, locVars,
                  tunerVars, pollVars, evalVars>>

\* A new job starts its first training jobs.
LaunchTrainingJobs ==
    \E j \in Active :
        /\ jobs[j].launched = 0
        /\ jobs' = [jobs EXCEPT ![j] = Launched(jobs[j])]
        /\ UNCHANGED <<notebookVars, faults, clock>>

TrainingJobCompletes ==
    \E j \in Active :
        /\ jobs[j].running > 0
        /\ \E v \in scores : jobs' = [jobs EXCEPT ![j] = Executed(jobs[j], v)]
        /\ UNCHANGED <<notebookVars, faults, clock>>

\* The job fails.
TuningJobFails ==
    \E j \in Active :
        /\ faults < MaxFaults
        /\ faults' = faults + 1
        /\ jobs' = [jobs EXCEPT ![j] = Ended(jobs[j], "Failed")]
        /\ UNCHANGED <<notebookVars, clock>>

\* The job is stopped from the console.
TuningJobStopped ==
    \E j \in Active :
        /\ faults < MaxFaults
        /\ faults' = faults + 1
        /\ jobs' = [jobs EXCEPT ![j] = Ended(jobs[j], "Stopped")]
        /\ UNCHANGED <<notebookVars, clock>>

(***************************************************************************)
(* Cells that call the tuning API: the call, then its return or the        *)
(* exception it raises.  Nothing in the notebook catches an exception.     *)
(***************************************************************************)
Call(c, op, request) == [cell |-> c, op |-> op, request |-> request]

Pending(c) == {call \in inflight : call.cell = c}

\* The kernel blocks on the call.
Block(c) == running' = c /\ UNCHANGED <<passed, scores>>

\* The call raises: the service is throttling, or it turns the request down.
Raises(turned_down) ==
    \/ /\ faults < MaxFaults
       /\ faults' = faults + 1
    \/ /\ turned_down
       /\ faults' = faults

TunerOf(c) == IF c \in {"fit", "poll", "table"} THEN tuner ELSE tuner_warm_start

TunerName(c) ==
    IF c \in {"fit", "poll", "table"} THEN "tuner" ELSE "tuner_warm_start"

\* tuner.fit({'train': s3_input_train, 'validation': s3_input_validation}):
\* the SDK names the job, then asks the service to create it.
FitCall(c) ==
    /\ CanStart(c)
    /\ clock <= MaxFits
    /\ IF {TunerName(c), "s3_input_train", "s3_input_validation"}
              \subseteq bound
       THEN LET t == [TunerOf(c) EXCEPT !.current_job_name =
                         JobName(TunerOf(c).base_tuning_job_name, clock)]
            IN /\ IF c = "fit"
                  THEN tuner' = t /\ UNCHANGED tuner_warm_start
                  ELSE tuner_warm_start' = t /\ UNCHANGED tuner
               /\ clock' = clock + 1
               /\ inflight' = inflight \cup
                    {Call(c, "CreateHyperParameterTuningJob",
                          CreateRequest(t, [train |-> s3_input_train,
                                            validation |-> s3_input_validation]))}
               /\ Block(c)
               /\ UNCHANGED <<pc, result, out>>
       ELSE /\ Finish(c, "error", <<"NameError">>)
            /\ UNCHANGED <<tuner, tuner_warm_start, clock, inflight>>
    /\ UNCHANGED <<bound, dataVars, worldVars, locVars, xgb,
                   hyperparameter_ranges, objective_metric_name,
                   warm_start_config, parent_tuning_job_name, pollVars,
                   evalVars, jobs, faults>>

\* fit returns as soon as the service has created the job.
FitReturn(c) ==
    /\ running = c
    /\ \E call \in Pending(c) :
        /\ RequestValid(call.request)
        /\ jobs' = jobs @@ (call.request.name :> NewJob(call.request))
        /\ inflight' = inflight \ {call}
    /\ Finish(c, "ok", <<>>)
    /\ UNCHANGED <<bound, dataVars, worldVars, locVars, tunerVars, pollVars,
                   evalVars, faults, clock>>

FitRaises(c) ==
    /\ running = c
    /\ \E call \in Pending(c) :
        /\ Raises(~RequestValid(call.request))
        /\ inflight' = inflight \ {call}
    /\ Finish(c, "error", <<"ClientError">>)
    /\ UNCHANGED <<bound, dataVars, worldVars, locVars, tunerVars, pollVars,
                   evalVars, jobs, clock>>

\* describe_hyper_parameter_tuning_job: the fields the notebook reads.
Describe(job) ==
    [HyperParameterTuningJobStatus |-> job.status,
     TrainingJobStatusCounters |-> [Completed |-> job.completed]]

NoResult ==
    [HyperParameterTuningJobStatus |-> "",
     TrainingJobStatusCounters |-> [Completed |-> 0]]

\* Variant of PollOutput: the reminder printed whatever the status.
PollOutputAlwaysReminds(st, n) ==
    <<"Current status: " \o st,
      "Reminder: the tuning job has not been completed.",
      ToString(n) \o " training jobs have completed">>

\* What the status-poll cell prints.
PollOutput(st, n) ==
    <<"Current status: " \o st>>
    \o (IF st # "Completed"
        THEN <<"Reminder: the tuning job has not been completed.">>
        ELSE <<>>)
    \o <<ToString(n) \o " training jobs have completed">>

\* Variant of PollCall: the job name read into tuning_job_name, the name the
\* evaluation cells use, instead of job_name.
PollCallRebinds(c) ==
    /\ CanStart(c)
    /\ sage_client' = "sagemaker"
    /\ IF TunerName(c) \in bound
       THEN /\ tuning_job_name' = TunerOf(c).current_job_name
            /\ job_name' = job_name
            /\ bound' = bound \cup {"sage_client", "tuning_job_name"}
            /\ inflight' = inflight \cup
                 {Call(c, "DescribeHyperParameterTuningJob",
                       [name |-> tuning_job_name'])}
            /\ Block(c)
            /\ UNCHANGED <<pc, result, out>>
       ELSE /\ bound' = bound \cup {"sage_client"}
            /\ Finish(c, "error", <<"NameError">>)
            /\ UNCHANGED <<job_name, tuning_job_name, inflight>>
    /\ UNCHANGED <<dataVars, worldVars, locVars, tunerVars,
                   tuning_job_result, status, job_count, df_parent,
                   warmstart_tuning_job_name, df_warm_start,
                   df_parent_objective_value, df_warm_start_objective_value,
                   best_overall_training_job, serviceVars>>

\* sage_client = ...; job_name = tuner._current_job_name;
\* tuning_job_result = sage_client.describe_hyper_parameter_tuning_job(...)
PollCall(c) ==
    /\ CanStart(c)
    /\ sage_client' = "sagemaker"
    /\ IF TunerName(c) \in bound
       THEN /\ job_name' = TunerOf(c).current_job_name
            /\ bound' = bound \cup {"sage_client", "job_name"}
            /\ inflight' = inflight \cup
                 {Call(c, "DescribeHyperParameterTuningJob",
                       [name |-> job_name'])}
            /\ Block(c)
            /\ UNCHANGED <<pc, result, out>>
       ELSE /\ bound' = bound \cup {"sage_client"}
            /\ Finish(c, "error", <<"NameError">>)
            /\ UNCHANGED <<job_name, inflight>>
    /\ UNCHANGED <<dataVars, worldVars, locVars, tunerVars,
                   tuning_job_result, status, job_count, evalVars,
                   serviceVars>>

\* status = ...; print; if status != 'Completed': print; job_count = ...; print
PollReturn(c) ==
    /\ running = c
    /\ \E call \in Pending(c) :
        /\ call.request.name \in DOMAIN jobs
        /\ tuning_job_result' = Describe(jobs[call.request.name])
        /\ inflight' = inflight \ {call}
    /\ status' = tuning_job_result'.HyperParameterTuningJobStatus
    /\ job_count' = tuning_job_result'.TrainingJobStatusCounters.Completed
    /\ bound' = bound \cup {"tuning_job_result", "status", "job_count"}
    /\ Finish(c, "ok", PollOutput(status', job_count'))
    /\ UNCHANGED <<dataVars, worldVars, locVars, tunerVars, sage_client,
                   job_name, evalVars, serviceVars>>

PollRaises(c) ==
    /\ running = c
    /\ \E call \in Pending(c) :
        /\ Raises(call.request.name \notin DOMAIN jobs)
        /\ inflight' = inflight \ {call}
    /\ Finish(c, "error", <<"ClientError">>)
    /\ UNCHANGED <<bound, dataVars, worldVars, locVars, tunerVars, pollVars,
                   evalVars, jobs, clock>>

(***************************************************************************)
(* Evaluation.  A results table stands for the rows the analytics object   *)
(* fetched, one per training job the tuning job has launched; the model    *)
(* keeps which job it is the table of.                                     *)
(***************************************************************************)
ResultsTable(name) == [job |-> name, filter |-> "none"]

NoTable == ResultsTable("")

\* df[df['FinalObjectiveValue'] > -float('inf')]
WithObjectiveValue(df) == [df EXCEPT !.filter = "FinalObjectiveValue > -inf"]

TableName(c) ==
    IF c = "table" THEN "tuning_job_name" ELSE "warmstart_tuning_job_name"

FrameName(c) == IF c = "table" THEN "df_parent" ELSE "df_warm_start"

MetricsName(c) ==
    IF c = "table" THEN "tuner_parent_metrics" ELSE "tuner_warm_start_metrics"

\* tuning_job_name = tuner._current_job_name
\* tuner_parent_metrics = sagemaker.HyperparameterTuningJobAnalytics(...)
\* ... tuner_parent_metrics.dataframe() ...
TableCall(c) ==
    /\ CanStart(c)
    /\ IF TunerName(c) \in bound
       THEN /\ IF c = "table"
               THEN /\ tuning_job_name' = TunerOf(c).current_job_name
                    /\ UNCHANGED warmstart_tuning_job_name
               ELSE /\ warmstart_tuning_job_name' = TunerOf(c).current_job_name
                    /\ UNCHANGED tuning_job_name
            /\ bound' = bound \cup {TableName(c), MetricsName(c)}
            /\ inflight' = inflight \cup
                 {Call(c, "ListTrainingJobsForHyperParameterTuningJob",
                       [name |-> TunerOf(c).current_job_name])}
            /\ Block(c)
            /\ UNCHANGED <<pc, result, out>>
       ELSE /\ Finish(c, "error", <<"NameError">>)
            /\ UNCHANGED <<tuning_job_name, warmstart_tuning_job_name, bound,
                           inflight>>
    /\ UNCHANGED <<dataVars, worldVars, locVars, tunerVars, pollVars,
                   df_parent, df_warm_start, df_parent_objective_value,
                   df_warm_start_objective_value, best_overall_training_job,
                   serviceVars>>

\* The table the cell leaves bound, or none: the frame is assigned only when
\* the fetched table has rows.
TableFetched(c, name) ==
    jobs[name].launched > 0

\* if not ....dataframe().empty: df_parent = ....sort_values(...)
\* df_parent
TableReturn(c) ==
    /\ running = c
    /\ \E call \in Pending(c) :
        /\ call.request.name \in DOMAIN jobs
        /\ inflight' = inflight \ {call}
        /\ IF TableFetched(c, call.request.name)
           THEN /\ IF c = "table"
                   THEN /\ df_parent' = ResultsTable(call.request.name)
                        /\ UNCHANGED df_warm_start
                   ELSE /\ df_warm_start' = ResultsTable(call.request.name)
                        /\ UNCHANGED df_parent
                /\ bound' = bound \cup {FrameName(c)}
           ELSE UNCHANGED <<df_parent, df_warm_start, bound>>
    /\ IF FrameName(c) \in bound'
       THEN Finish(c, "ok", <<FrameName(c)>>)
       ELSE Finish(c, "error", <<"NameError">>)
    /\ UNCHANGED <<dataVars, worldVars, locVars, tunerVars, pollVars,
                   tuning_job_name, warmstart_tuning_job_name,
                   df_parent_objective_value, df_warm_start_objective_value,
                   best_overall_training_job, serviceVars>>

TableRaises(c) ==
    /\ running = c
    /\ \E call \in Pending(c) :
        /\ Raises(call.request.name \notin DOMAIN jobs)
        /\ inflight' = inflight \ {call}
    /\ Finish(c, "error", <<"ClientError">>)
    /\ UNCHANGED <<bound, dataVars, worldVars, locVars, tunerVars, pollVars,
                   evalVars, jobs, clock>>

\* df_parent_objective_value = df_parent[...]; p = figure(...); show(p)
Plot ==
    /\ CanStart("plot")
    /\ IF "df_parent" \in bound
       THEN /\ df_parent_objective_value' = WithObjectiveValue(df_parent)
            /\ bound' = bound \cup {"df_parent_objective_value", "p"}
            /\ Finish("plot", "ok", <<"figure">>)
       ELSE /\ Finish("plot", "error", <<"NameError">>)
            /\ UNCHANGED <<df_parent_objective_value, bound>>
    /\ UNCHANGED <<inflight, dataVars, worldVars, locVars, tunerVars,
                   pollVars, tuning_job_name, df_parent,
                   warmstart_tuning_job_name, df_warm_start,
                   df_warm_start_objective_value, best_overall_training_job,
                   serviceVars>>

\* The plot of the parent's and the warm start job's objective values.
PlotWarm ==
    /\ CanStart("plot_warm")
    /\ IF "df_parent" \notin bound
       THEN /\ Finish("plot_warm", "error", <<"NameError">>)
            /\ UNCHANGED <<df_parent_objective_value,
                           df_warm_start_objective_value, bound>>
       ELSE /\ df_parent_objective_value' = WithObjectiveValue(df_parent)
            /\ IF "df_warm_start" \notin bound
               THEN /\ bound' = bound \cup {"df_parent_objective_value"}
                    /\ Finish("plot_warm", "error", <<"NameError">>)
                    /\ UNCHANGED df_warm_start_objective_value
               ELSE /\ df_warm_start_objective_value' =
                            WithObjectiveValue(df_warm_start)
                    /\ bound' = bound \cup {"df_parent_objective_value",
                                 "df_warm_start_objective_value", "p"}
                    /\ Finish("plot_warm", "ok", <<"figure">>)
    /\ UNCHANGED <<inflight, dataVars, worldVars, locVars, tunerVars,
                   pollVars, tuning_job_name, df_parent,
                   warmstart_tuning_job_name, df_warm_start,
                   best_overall_training_job, serviceVars>>

\* The training job the service reports as the best of a tuning job.
\* It is the best by the objective the job was created with: the largest
\* value of the metric for 'Maximize', the smallest for 'Minimize'.
BestObjective(type, values) ==
    CHOOSE v \in values :
        \A w \in values : IF type = "Maximize" THEN w <= v ELSE v <= w

BestTrainingJob(job) ==
    [TuningJobName |-> job.config.name,
     FinalHyperParameterTuningJobObjectiveMetric |->
        [MetricName |-> job.config.objective[2],
         Value |-> BestObjective(job.config.objective[1], job.objectives)]]

NoTrainingJob ==
    [TuningJobName |-> "",
     FinalHyperParameterTuningJobObjectiveMetric |->
        [MetricName |-> "", Value |-> 0]]

\* best_overall_training_job = sage_client.describe_hyper_parameter_tuning_job(
\*     HyperParameterTuningJobName=warmstart_tuning_job_name)['BestTrainingJob']
BestCall ==
    /\ CanStart("best")
    /\ IF {"sage_client", "warmstart_tuning_job_name"} \subseteq bound
       THEN /\ inflight' = inflight \cup
                 {Call("best", "DescribeHyperParameterTuningJob",
                       [name |-> warmstart_tuning_job_name])}
            /\ Block("best")
            /\ UNCHANGED <<pc, result, out>>
       ELSE /\ Finish("best", "error", <<"NameError">>)
            /\ UNCHANGED inflight
    /\ UNCHANGED <<bound, dataVars, worldVars, locVars, tunerVars, pollVars,
                   evalVars, serviceVars>>

BestReturn ==
    /\ running = "best"
    /\ \E call \in Pending("best") :
        /\ call.request.name \in DOMAIN jobs
        /\ inflight' = inflight \ {call}
        /\ IF jobs[call.request.name].completed > 0
           THEN /\ best_overall_training_job' =
                        BestTrainingJob(jobs[call.request.name])
                /\ bound' = bound \cup {"best_overall_training_job"}
                /\ Finish("best", "ok", <<"best_overall_training_job">>)
           ELSE /\ Finish("best", "error", <<"KeyError">>)
                /\ UNCHANGED <<best_overall_training_job, bound>>
    /\ UNCHANGED <<dataVars, worldVars, locVars, tunerVars, pollVars,
                   tuning_job_name, df_parent, warmstart_tuning_job_name,
                   df_warm_start, df_parent_objective_value,
                   df_warm_start_objective_value, serviceVars>>

BestRaises ==
    /\ running = "best"
    /\ \E call \in Pending("best") :
        /\ Raises(call.request.name \notin DOMAIN jobs)
        /\ inflight' = inflight \ {call}
    /\ Finish("best", "error", <<"ClientError">>)
    /\ UNCHANGED <<bound, dataVars, worldVars, locVars, tunerVars, pollVars,
                   evalVars, jobs, clock>>

(***************************************************************************)
(* Data cleaning and the warm start job.                                   *)
(***************************************************************************)
DroppedColumns ==
    {"duration", "emp.var.rate", "cons.price.idx", "cons.conf.idx",
     "euribor3m", "nr.employed"}

\* clean_data = data.drop([...], axis=1)
Clean ==
    /\ CanStart("clean")
    /\ IF "data" \in bound /\ drop_columns_ok(data, DroppedColumns)
       THEN /\ clean_data' = drop_columns(data, DroppedColumns)
            /\ bound' = bound \cup {"clean_data"}
            /\ Finish("clean", "ok", <<>>)
       ELSE /\ Finish("clean", "error", <<"NameError">>)
            /\ UNCHANGED <<clean_data, bound>>
    /\ UNCHANGED <<inflight, data, model_data, train_data, validation_data,
                   clean_model_data, clean_train_data, clean_validation_data,
                   worldVars, locVars, tunerVars, pollVars, evalVars,
                   serviceVars>>

\* clean_model_data = pd.get_dummies(clean_data), then the reformatting steps
\* of the first data set; train.csv and validation.csv are written again.
CleanPrepare ==
    /\ CanStart("clean_prepare")
    /\ IF "clean_data" \notin bound
       THEN /\ Finish("clean_prepare", "error", <<"NameError">>)
            /\ UNCHANGED <<clean_model_data, clean_train_data,
                           clean_validation_data, files, bound>>
       ELSE LET dummies == get_dummies(clean_data)
            IN IF {"y_no", "y_yes"} \subseteq Range(dummies.columns)
               THEN /\ clean_model_data' = Reformat(dummies).model
                    /\ clean_train_data' = Reformat(dummies).train
                    /\ clean_validation_data' = Reformat(dummies).validation
                    /\ files' = Reformat(dummies).files
                    /\ bound' = bound \cup {"clean_model_data",
                                 "clean_train_data", "clean_validation_data"}
                    /\ Finish("clean_prepare", "ok", <<>>)
               ELSE /\ clean_model_data' = dummies
                    /\ bound' = bound \cup {"clean_model_data"}
                    /\ Finish("clean_prepare", "error", <<"KeyError">>)
                    /\ UNCHANGED <<clean_train_data, clean_validation_data,
                                   files>>
    /\ UNCHANGED <<inflight, data, model_data, train_data, validation_data,
                   clean_data, bank_additional_full, rng1729, s3, locVars,
                   tunerVars, pollVars, evalVars, serviceVars>>

\* s3train_clean, s3validation_clean and the two `aws s3 cp`.
UploadClean ==
    /\ CanStart("upload_clean")
    /\ s3train_clean' = S3Url(bucket, prefix, "train_2/")
    /\ s3validation_clean' = S3Url(bucket, prefix, "validation_2/")
    /\ s3' = [s3 EXCEPT !["train_2/"] = files["train.csv"],
                        !["validation_2/"] = files["validation.csv"]]
    /\ bound' = bound \cup {"s3train_clean", "s3validation_clean"}
    /\ Finish("upload_clean", "ok", <<>>)
    /\ UNCHANGED <<inflight, dataVars, bank_additional_full, rng1729, files,
                   bucket, prefix, s3train, s3validation, s3_output_location,
                   s3_input_train, s3_input_validation, tunerVars, pollVars,
                   evalVars, serviceVars>>

\* s3_output_location, s3_input_train, s3_input_validation, a second time.
S3Locations2 ==
    /\ CanStart("s3_locations_2")
    /\ s3_output_location' = S3Url(bucket, prefix, "output_2")
    /\ s3_input_train' = s3_input(s3train_clean)
    /\ s3_input_validation' = s3_input(s3validation_clean)
    /\ bound' = bound \cup {"s3_output_location", "s3_input_train",
                            "s3_input_validation"}
    /\ Finish("s3_locations_2", "ok", <<>>)
    /\ UNCHANGED <<inflight, dataVars, worldVars, bucket, prefix, s3train,
                   s3validation, s3train_clean, s3validation_clean,
                   tunerVars, pollVars, evalVars, serviceVars>>

\* parent_tuning_job_name = tuning_job_name
\* warm_start_config = WarmStartConfig(..., parents={parent_tuning_job_name})
WarmStartConfigCell ==
    /\ CanStart("warm_start_config")
    /\ IF "tuning_job_name" \in bound
       THEN /\ parent_tuning_job_name' = tuning_job_name
            /\ warm_start_config' = WarmStartConfig(parent_tuning_job_name')
            /\ bound' = bound \cup {"parent_tuning_job_name",
                                    "warm_start_config"}
            /\ Finish("warm_start_config", "ok", <<parent_tuning_job_name'>>)
       ELSE /\ Finish("warm_start_config", "error", <<"NameError">>)
            /\ UNCHANGED <<parent_tuning_job_name, warm_start_config, bound>>
    /\ UNCHANGED <<inflight, dataVars, worldVars, locVars, xgb,
                   hyperparameter_ranges, objective_metric_name, tuner,
                   tuner_warm_start, pollVars, evalVars, serviceVars>>

\* tuner_warm_start = HyperparameterTuner(xgb, ...)
TunerWarmStartCell ==
    /\ CanStart("tuner_warm_start")
    /\ IF {"xgb", "objective_metric_name", "hyperparameter_ranges",
           "warm_start_config"} \subseteq bound
       THEN /\ tuner_warm_start' =
                    WarmStartTuner(xgb, objective_metric_name,
                                   hyperparameter_ranges, warm_start_config)
            /\ bound' = bound \cup {"tuner_warm_start"}
            /\ Finish("tuner_warm_start", "ok", <<>>)
       ELSE /\ Finish("tuner_warm_start", "error", <<"NameError">>)
            /\ UNCHANGED <<tuner_warm_start, bound>>
    /\ UNCHANGED <<inflight, dataVars, worldVars, locVars, xgb,
                   hyperparameter_ranges, objective_metric_name, tuner,
                   warm_start_config, parent_tuning_job_name, pollVars,
                   evalVars, serviceVars>>

(***************************************************************************)
(* The notebook before its first cell runs, and its steps.                 *)
(***************************************************************************)
InitNotebook ==
    /\ pc = 1
    /\ result = [c \in Cells |-> "todo"]
    /\ running = "idle"
    /\ inflight = {}
    /\ out = <<>>
    /\ bound = {}
    /\ data = NoFrame /\ model_data = NoFrame /\ train_data = NoFrame
    /\ validation_data = NoFrame /\ clean_data = NoFrame
    /\ clean_model_data = NoFrame /\ clean_train_data = NoFrame
    /\ clean_validation_data = NoFrame
    /\ files = [n \in {"train.csv", "validation.csv"} |-> <<>>]
    /\ s3 = [l \in {"train/", "validation/", "train_2/", "validation_2/"}
                |-> <<>>]
    /\ bucket = "" /\ prefix = "" /\ s3train = "" /\ s3validation = ""
    /\ s3train_clean = "" /\ s3validation_clean = ""
    /\ s3_output_location = ""
    /\ s3_input_train = NoInput /\ s3_input_validation = NoInput
    /\ xgb = NoEstimator
    /\ hyperparameter_ranges = HyperparameterRanges
    /\ objective_metric_name = ""
    /\ tuner = NoTuner /\ tuner_warm_start = NoTuner
    /\ warm_start_config = NoWarmStart
    /\ parent_tuning_job_name = ""
    /\ sage_client = "" /\ job_name = "" /\ tuning_job_result = NoResult
    /\ status = "" /\ job_count = 0
    /\ tuning_job_name = "" /\ warmstart_tuning_job_name = ""
    /\ df_parent = NoTable /\ df_warm_start = NoTable
    /\ df_parent_objective_value = NoTable
    /\ df_warm_start_objective_value = NoTable
    /\ best_overall_training_job = NoTrainingJob
    /\ jobs = [j \in {} |-> NewJob(CreateRequest(NoTuner,
                   [train |-> NoInput, validation |-> NoInput]))]
    /\ faults = 0
    /\ clock = 1

\* The tuning runs: the data set is fixed, and so is the order the seeded
\* generator draws.
InitFixedData ==
    /\ InitNotebook
    /\ bank_additional_full = FixedDataSet
    /\ rng1729 = [i \in 1..Len(FixedDataSet) |-> Len(FixedDataSet) + 1 - i]

\* Where the objective values do not matter every training job reaches the
\* same one.
InitTuning == InitFixedData /\ scores = {1}

\* Data preparation over every data set within the bounds and every order
\* the seeded generator may draw for its length.
InitData ==
    /\ InitNotebook
    /\ passed = Cells \ DataCells
    /\ scores = {1}
    /\ bank_additional_full \in DataSets
    /\ rng1729 \in SampleOrders(Len(bank_additional_full))

DataNext ==
    \/ ReadData
    \/ GetDummies
    \/ SplitSave
    \/ Clean
    \/ CleanPrepare

\* The run passes over the next cell.
PassOver ==
    /\ running = "idle"
    /\ pc <= NCells
    /\ CellOrder[pc] \in passed
    /\ pc' = pc + 1
    /\ UNCHANGED <<result, running, inflight, out, passed, scores, bound, dataVars,
                   worldVars, locVars, tunerVars, pollVars, evalVars,
                   serviceVars>>

\* Setting up and submitting the two tuning jobs, with the evaluation of the
\* first one.
SubmitNext ==
    \/ Setup
    \/ Upload
    \/ S3Locations
    \/ EstimatorCell
    \/ TunerCell
    \/ \E c \in {"fit", "fit_warm"} : FitCall(c) \/ FitReturn(c) \/ FitRaises(c)
    \/ TableCall("table") \/ TableReturn("table") \/ TableRaises("table")
    \/ Plot
    \/ UploadClean
    \/ S3Locations2
    \/ WarmStartConfigCell
    \/ TunerWarmStartCell

PollNext ==
    \E c \in PollCells : PollCall(c) \/ PollReturn(c) \/ PollRaises(c)

EvalNext ==
    \/ TableCall("table_warm") \/ TableReturn("table_warm")
    \/ TableRaises("table_warm")
    \/ PlotWarm
    \/ BestCall \/ BestReturn \/ BestRaises

ServiceNext ==
    \/ LaunchTrainingJobs
    \/ TrainingJobCompletes
    \/ TuningJobFails
    \/ TuningJobStopped

WarmEvalCells == {"table_warm", "plot_warm", "best"}

\* The two tuning jobs are set up, submitted, and the first one evaluated.
\* The data preparation, whose frames no later cell reads, the status polls
\* and the evaluation of the warm start job are passed over.
Init == InitTuning /\ passed = DataCells \cup PollCells \cup WarmEvalCells

Next == SubmitNext \/ ServiceNext \/ PassOver

Spec == Init /\ [][Next]_vars

\* The cells of the warm start job: all those after the first job's plot.
WarmCells == {c \in Cells : Index(c) > Index("plot")}

\* The runs with a status poll: either the first job alone, polled and
\* evaluated, or both jobs with the poll of the warm start job.
InitPoll ==
    /\ InitTuning
    /\ \/ passed = DataCells \cup WarmCells
       \/ passed = DataCells \cup WarmEvalCells \cup {"poll"}

NextPoll == SubmitNext \/ PollNext \/ ServiceNext \/ PassOver

SpecPoll == InitPoll /\ [][NextPoll]_vars

\* Both jobs with their evaluation; the poll of the first job binds the
\* sage_client the last cell calls.
InitEval == InitTuning /\ passed = DataCells \cup {"poll_warm"}

NextEval == SubmitNext \/ PollNext \/ EvalNext \/ ServiceNext \/ PassOver

SpecEval == InitEval /\ [][NextEval]_vars

\* Both jobs with their evaluation and training jobs that reach different
\* objective values.
InitBest ==
    /\ InitFixedData
    /\ passed = DataCells \cup {"poll_warm"}
    /\ scores = 1..MaxObjective

\* The runs in which nothing goes wrong: no call raises, no job fails or is
\* stopped.
NextBest ==
    \/ Setup
    \/ Upload
    \/ S3Locations
    \/ EstimatorCell
    \/ TunerCell
    \/ \E c \in {"fit", "fit_warm"} : FitCall(c) \/ FitReturn(c)
    \/ PollCall("poll") \/ PollReturn("poll")
    \/ \E c \in {"table", "table_warm"} : TableCall(c) \/ TableReturn(c)
    \/ Plot
    \/ UploadClean
    \/ S3Locations2
    \/ WarmStartConfigCell
    \/ TunerWarmStartCell
    \/ PlotWarm
    \/ BestCall \/ BestReturn
    \/ LaunchTrainingJobs
    \/ TrainingJobCompletes
    \/ PassOver

SpecBest == InitBest /\ [][NextBest]_vars

\* The data preparation cells alone.
NextData == DataNext \/ PassOver

SpecData == InitData /\ [][NextData]_vars

(***************************************************************************)
(* Properties.                                                             *)
(***************************************************************************)
\* The jobs the service holds, by the warm start type of their request.
FirstJobs == {j \in DOMAIN jobs : jobs[j].config.warm_start_type = "None"}

WarmStartJobs == {j \in DOMAIN jobs : jobs[j].config.warm_start_type # "None"}

\* The calls of a cell that are in flight.
FitWarmCalls == Pending("fit_warm")

WarmStartTypes == {"IDENTICAL_DATA_AND_ALGORITHM", "TRANSFER_LEARNING"}

\* C1: the notebook submits at most two tuning jobs, one per fit cell, and
\* two when both fits succeed.  tuner_warm_start.fit is called only after
\* tuner.fit has been called and tuning_job_name has been read, with the one
\* parent parent_tuning_job_name; a warm start job exists only beside the
\* first job, and its parent set is exactly {tuning_job_name}, the name of
\* the first job.
C1_TwoJobsInSequence ==
    /\ Cardinality(FirstJobs) <= 1
    /\ Cardinality(WarmStartJobs) <= 1
    /\ result["fit"] = "ok" /\ result["fit_warm"] = "ok"
          => Cardinality(DOMAIN jobs) = 2
    /\ \A call \in FitWarmCalls :
          /\ result["fit"] # "todo"
          /\ tuner.current_job_name # "None"
          /\ {"tuning_job_name", "parent_tuning_job_name"} \subseteq bound
          /\ call.request.parents = {parent_tuning_job_name}
    /\ \A j \in WarmStartJobs :
          /\ "tuning_job_name" \in bound
          /\ tuning_job_name \in FirstJobs
          /\ jobs[j].config.parents = {tuning_job_name}

\* Both jobs have been submitted.
C1_Witness ==
    /\ result["fit"] = "ok"
    /\ result["fit_warm"] = "ok"
    /\ Cardinality(FirstJobs) = 1
    /\ Cardinality(WarmStartJobs) = 1

\* C2: whenever the call of tuner_warm_start.fit is in flight, the parent
\* job it names has status 'Completed'.  The notebook does not keep this:
\* tuner.fit returns once the job is created and no cell waits for it.
C2_ParentCompletedAtWarmStart ==
    \A call \in FitWarmCalls :
        \A parent \in call.request.parents :
            parent \in DOMAIN jobs => jobs[parent].status = "Completed"

\* C3: when the results-table cell and the plot cell of the first job have
\* both succeeded, the job's status is 'Completed'.  The notebook does not
\* keep this: the table is fetched for a job of any status that has
\* launched a training job.
C3_EvaluationOnlyWhenCompleted ==
    /\ result["table"] = "ok"
    /\ result["plot"] = "ok"
    /\ tuning_job_name \in DOMAIN jobs
    => jobs[tuning_job_name].status = "Completed"

\* A call in flight can return or raise at once, whatever the jobs do.
CallEnds(c) ==
    IF c \in {"fit", "fit_warm"} THEN FitReturn(c) \/ FitRaises(c)
    ELSE IF c \in PollCells THEN PollReturn(c) \/ PollRaises(c)
    ELSE IF c \in {"table", "table_warm"} THEN TableReturn(c) \/ TableRaises(c)
    ELSE BestReturn \/ BestRaises

\* C4: at most one API call of the notebook is in flight; it is the call of
\* the one cell the kernel is running, no other cell starts before it ends,
\* and it ends without waiting on any job: a call to a job still in progress
\* returns.  Waiting for a job is left to re-running the status-poll cell.
C4_OneCallInFlight ==
    /\ Cardinality(inflight) <= 1
    /\ \A call \in inflight : running = call.cell
    /\ running # "idle" => /\ inflight # {}
                           /\ \A c \in Cells : ~CanStart(c)
                           /\ ENABLED CallEnds(running)

\* The status poll of a job in progress is in flight, with the first job
\* created by a fit that returned while the job was in progress.
C4_Witness ==
    /\ running \in PollCells
    /\ result["fit"] = "ok"
    /\ \E call \in inflight :
          /\ call.request.name \in DOMAIN jobs
          /\ jobs[call.request.name].status = "InProgress"

\* The resource limits the two tuners are written with.
Budget(j) == IF j \in WarmStartJobs THEN 20 ELSE 5

Parallelism(j) == IF j \in WarmStartJobs THEN 2 ELSE 3

C7_WarmStartConfig ==
    /\ "warm_start_config" \in bound =>
          /\ Cardinality(warm_start_config.parents) = 1
          /\ Cardinality(warm_start_config.parents) <= MaxParents
          /\ warm_start_config.type \in WarmStartTypes
          /\ warm_start_config.type = "TRANSFER_LEARNING"
    /\ "tuner_warm_start" \in bound =>
          tuner_warm_start.warm_start_config = warm_start_config
    /\ \A call \in FitWarmCalls :
          /\ call.request.parents = warm_start_config.parents
          /\ call.request.warm_start_type = "TRANSFER_LEARNING"
    /\ \A j \in WarmStartJobs :
          /\ Cardinality(jobs[j].config.parents) = 1
          /\ jobs[j].config.warm_start_type = "TRANSFER_LEARNING"

\* The configuration is in the request of a warm start fit in flight.
C7_Witness ==
    /\ FitWarmCalls # {}
    /\ \A call \in FitWarmCalls : call.request.parents = {tuning_job_name}

Reminder == "Reminder: the tuning job has not been completed."

\* C8: a status poll that the service answers ends without an exception
\* whatever the status of the job; it prints the status, then the reminder
\* exactly when the status is not 'Completed', then the count of completed
\* training jobs, and it changes no job and submits none.  A poll the service
\* does not answer ends with the exception of the call, unhandled.
C8_PollOnlyReports ==
    [][\A c \in PollCells :
        /\ PollReturn(c) =>
              \E call \in Pending(c) :
                 LET job == jobs[call.request.name]
                 IN /\ result'[c] = "ok"
                    /\ status' = job.status
                    /\ job_count' = job.completed
                    /\ Head(out') = "Current status: " \o job.status
                    /\ Reminder \in Range(out') <=> job.status # "Completed"
                    /\ Len(out') = IF job.status = "Completed" THEN 2 ELSE 3
                    /\ out'[Len(out')] =
                          ToString(job.completed) \o " training jobs have completed"
                    /\ inflight' = {}
                    /\ UNCHANGED <<jobs, clock>>
        /\ PollRaises(c) =>
              /\ result'[c] = "error"
              /\ out' = <<"ClientError">>
              /\ inflight' = {}
              /\ UNCHANGED <<jobs, clock, pollVars>>]_vars

\* A poll has reported a job that failed or was stopped, with the reminder.
C8_Witness ==
    /\ \E c \in PollCells : result[c] = "ok" /\ pc = Index(c) + 1
    /\ "status" \in bound
    /\ status \in {"Failed", "Stopped"}
    /\ Reminder \in Range(out)
    /\ Len(out) = 3

\* The names a status-poll cell leaves alone.
OtherNames == <<dataVars, worldVars, locVars, tunerVars, evalVars, passed>>

PollStep ==
    \E c \in PollCells : PollCall(c) \/ PollReturn(c) \/ PollRaises(c)

StopRequests ==
    {call \in inflight : call.op = "StopHyperParameterTuningJob"}

\* C9: no step of a status-poll cell changes a tuning job, or a variable of
\* the notebook other than sage_client, job_name, tuning_job_result, status
\* and job_count, however often the cell is run; and no step of the notebook
\* stops a job: a job is stopped or fails only by a step of the service that
\* leaves the notebook as it is, and the notebook sends no stop request.
C9_PollFrame ==
    [][/\ PollStep =>
            /\ UNCHANGED <<jobs, OtherNames>>
            /\ bound' \ PollNames = bound \ PollNames
       /\ StopRequests' = {}
       /\ \A j \in DOMAIN jobs :
            jobs'[j].status # jobs[j].status => UNCHANGED notebookVars]_vars

\* The warm start job has been polled more than once while both jobs exist:
\* the poll is being run again after one that succeeded.
C9_Witness ==
    /\ running = "poll_warm"
    /\ result["poll_warm"] = "ok"
    /\ Cardinality(DOMAIN jobs) = 2
    /\ \E j \in DOMAIN jobs : jobs[j].status = "InProgress"

\* The indicator columns of a frame that come from the label column.
LabelColumns(df) ==
    {c \in Range(df.columns) :
        /\ c \notin Range(DataColumns)
        /\ c \notin {DummyName("marital", l) : l \in Range(Levels("marital"))}}

ExactOpposites(df) ==
    /\ LabelColumns(df) = {"y_yes", "y_no"}
    /\ \A i \in 1..Len(df.rows) :
          /\ df.rows[i]["y_yes"] \in {0, 1}
          /\ df.rows[i]["y_no"] \in {0, 1}
          /\ df.rows[i]["y_yes"] + df.rows[i]["y_no"] = 1
          /\ df.rows[i]["y_yes"] = 1 <=> data.rows[i]["y"] = "yes"

\* C10: get_dummies turns the label column y into exactly two columns, y_yes
\* and y_no, and in every row exactly one of the two is 1: in model_data as
\* the get_dummies cell leaves it, and for the cleaned data as well.
C10_LabelIndicators ==
    /\ result["get_dummies"] = "ok" /\ result["split_save"] = "todo"
          => ExactOpposites(model_data)
    /\ "data" \in bound => ExactOpposites(get_dummies(data))
    /\ "clean_data" \in bound => ExactOpposites(get_dummies(clean_data))

\* The get_dummies cell has run on a data set of MaxRows rows.
C10_Witness ==
    /\ result["get_dummies"] = "ok"
    /\ result["split_save"] = "todo"
    /\ Len(model_data.rows) = MaxRows
    /\ \E i \in 1..MaxRows : model_data.rows[i]["y_yes"] = 1
    /\ \E i \in 1..MaxRows : model_data.rows[i]["y_no"] = 1

\* The file holds the frame in the format the training algorithm reads: one
\* line per row and nothing else (no header line), one field per column (no
\* index field), the label y_yes first, copied from the row of the data set
\* the line comes from, no other label column, every field a number.
LabelFirstCsv(df, file) ==
    /\ df.columns # <<>>
    /\ Head(df.columns) = "y_yes"
    /\ {"y_yes", "y_no"} \cap Range(Tail(df.columns)) = {}
    /\ Len(file) = Len(df.rows)
    /\ \A i \in 1..Len(file) :
          /\ Len(file[i]) = Len(df.columns)
          /\ file[i][1] = df.rows[i]["y_yes"]
          /\ file[i][1] = 1 <=> data.rows[df.index[i] + 1]["y"] = "yes"
          /\ \A j \in 1..Len(file[i]) :
                /\ file[i][j] \in Int
                /\ file[i][j] = df.rows[i][df.columns[j]]
                /\ df.columns[j] \in Range(DataColumns) =>
                      file[i][j] = data.rows[df.index[i] + 1][df.columns[j]]

\* C11: train.csv and validation.csv, as the split cell writes them for the
\* first data set and as the cleaning cell writes them again for the cleaned
\* one, have the label y_yes as first column, neither y_yes nor y_no among
\* the others, numbers in every column, no header line and no index column.
C11_CsvFormat ==
    /\ result["split_save"] = "ok" /\ result["clean_prepare"] # "ok" =>
          /\ LabelFirstCsv(train_data, files["train.csv"])
          /\ LabelFirstCsv(validation_data, files["validation.csv"])
    /\ result["clean_prepare"] = "ok" =>
          /\ LabelFirstCsv(clean_train_data, files["train.csv"])
          /\ LabelFirstCsv(clean_validation_data, files["validation.csv"])

\* Both pairs of files have been written, from a data set of MaxRows rows.
C11_Witness ==
    /\ result["split_save"] = "ok"
    /\ result["clean_prepare"] = "ok"
    /\ Len(files["train.csv"]) + Len(files["validation.csv"]) = MaxRows
    /\ files["validation.csv"] # <<>>
    /\ Len(clean_train_data.columns) < Len(train_data.columns)

\* The two frames split the frame `whole` by its index labels: no label in
\* both, every label in one, each row the row of `whole` with its label, and
\* the first frame holds the whole number of rows nearest to 70% of them.
SplitOf(whole, train, validation) ==
    LET n == Len(whole.rows)
        k == Len(train.rows)
        RowOf(label) == whole.rows[CHOOSE i \in 1..n : whole.index[i] = label]
    IN /\ Range(train.index) \cap Range(validation.index) = {}
       /\ Range(train.index) \cup Range(validation.index) = Range(whole.index)
       /\ Cardinality(Range(train.index)) = k
       /\ Len(validation.rows) = n - k
       /\ 10 * k - 7 * n <= 5
       /\ 7 * n - 10 * k <= 5
       /\ \A i \in 1..k : train.rows[i] = RowOf(train.index[i])
       /\ \A i \in 1..(n - k) : validation.rows[i] = RowOf(validation.index[i])

\* C12: the training and the validation set partition the data set, the
\* first and the cleaned one alike: no row is in both, every row is in one,
\* the training set holds 70% of the rows, rounded, and the validation set
\* the others.
C12_SplitPartition ==
    /\ result["split_save"] = "ok" =>
          SplitOf(model_data, train_data, validation_data)
    /\ result["clean_prepare"] = "ok" =>
          SplitOf(clean_model_data, clean_train_data, clean_validation_data)

\* Both data sets have been split, MaxRows rows each, neither set empty.
C12_Witness ==
    /\ result["split_save"] = "ok"
    /\ result["clean_prepare"] = "ok"
    /\ Len(model_data.rows) = MaxRows
    /\ Len(clean_model_data.rows) = MaxRows
    /\ train_data.rows # <<>> /\ validation_data.rows # <<>>
    /\ clean_train_data.rows # <<>> /\ clean_validation_data.rows # <<>>
    /\ train_data.index # SubSeq(model_data.index, 1, Len(train_data.index))

\* C14: once the second locations cell has run, the warm start job reads its
\* input from train_2/ and validation_2/ and stores its output under
\* output_2.  The notebook does not keep the last part: the request carries
\* the output path of xgb, which was built from the first s3_output_location.
C14_WarmStartLocations ==
    result["s3_locations_2"] = "ok" =>
        \A j \in WarmStartJobs :
            /\ jobs[j].config.train = S3Url(bucket, prefix, "train_2/")
            /\ jobs[j].config.validation = S3Url(bucket, prefix, "validation_2/")
            /\ jobs[j].config.output_path = S3Url(bucket, prefix, "output_2")
            /\ \A f \in FirstJobs :
                  jobs[j].config.output_path # jobs[f].config.output_path

\* C13: the last cell asks the service for the warm start job and binds
\* best_overall_training_job to its 'BestTrainingJob': a training job of the
\* warm start job whose validation:auc is the largest any training job of
\* that job has reached; when the job has completed, the largest of all its
\* training jobs.
C13_BestOfWarmStart ==
    [][BestReturn =>
         \A call \in Pending("best") :
            LET job == jobs[call.request.name]
                best == best_overall_training_job'
                metric == best.FinalHyperParameterTuningJobObjectiveMetric
            IN job.completed > 0 =>
                 /\ result'["best"] = "ok"
                 /\ "best_overall_training_job" \in bound'
                 /\ call.request.name = warmstart_tuning_job_name
                 /\ call.request.name \in WarmStartJobs
                 /\ best.TuningJobName = warmstart_tuning_job_name
                 /\ metric.MetricName = "validation:auc"
                 /\ metric.Value \in job.objectives
                 /\ \A v \in job.objectives : v <= metric.Value]_vars

\* The best training job of the completed warm start job has been read; its
\* training jobs reached different values, and those of the first job only
\* the smallest.
C13_Witness ==
    /\ result["best"] = "ok"
    /\ "best_overall_training_job" \in bound
    /\ \E j \in WarmStartJobs :
          /\ jobs[j].status = "Completed"
          /\ jobs[j].objectives = 1..MaxObjective
          /\ best_overall_training_job = BestTrainingJob(jobs[j])
          /\ best_overall_training_job
                .FinalHyperParameterTuningJobObjectiveMetric.Value = MaxObjective
    /\ \E j \in FirstJobs : jobs[j].objectives = {1}

====
